---- MODULE Spec2Model ----
(***************************************************************************)
(* socks: a pub/sub relay (src/socks/server.py).  Subscribers hold a       *)
(* websocket handled by Server.ws_handler, publishers POST to              *)
(* Server.send_handler, which schedules Server.send_channels as a detached *)
(* task.  All tasks run on one asyncio loop: a step of the model is the    *)
(* code one task runs between two suspension points.                       *)
(***************************************************************************)
EXTENDS Integers, Sequences, FiniteSets, TLC

\* Bounds of the model.
NumConns == 2      \* websocket connections (one ws_handler invocation each)
MaxMsgs == 2       \* inbound websocket messages processed, over all connections
MaxPublish == 1    \* POST /v1/send requests

Conns == 1 .. NumConns
Pubs == 1 .. MaxPublish

(***************************************************************************)
(* JSON values as Python sees them after json.loads.  An element of a list *)
(* (or a character of a string, or a key of an object) is an item [k, s]:  *)
(* k is "str" for a string, "num" for a number (hashable, not a string),   *)
(* "arr" for a nested list (unhashable).  A value is [t, v]: t its Python  *)
(* type, v the sequence of items iteration yields.                         *)
(***************************************************************************)
Str(s) == [k |-> "str", s |-> s]
Num(s) == [k |-> "num", s |-> s]
Arr(s) == [k |-> "arr", s |-> s]

JList(v) == [t |-> "list", v |-> v]
JString(v) == [t |-> "str", v |-> v]
JObject(v) == [t |-> "dict", v |-> v]
JNumber == [t |-> "int", v |-> << >>]
JZero == [t |-> "zero", v |-> << >>]
JNull == [t |-> "None", v |-> << >>]

\* bool(x): empty containers, 0 and None are falsy.
Truthy(j) ==
    CASE j.t \in {"list", "str", "dict"} -> Len(j.v) > 0
      [] j.t = "int" -> TRUE
      [] OTHER -> FALSE

\* set(x): TypeError when x is not iterable or holds an unhashable element.
SetRaises(j) ==
    \/ j.t \notin {"list", "str", "dict"}
    \/ \E i \in DOMAIN j.v : j.v[i].k = "arr"

SetOf(j) == {j.v[i] : i \in DOMAIN j.v}

\* isinstance(x, list)
IsList(j) == j.t = "list"

(***************************************************************************)
(* Inbound websocket TEXT messages.  json: "bad" (message.json() raises    *)
(* JSONDecodeError), "other" (parses, but not to an object) or "dict";     *)
(* has: the object has a "channels" key; channels: its value.              *)
(***************************************************************************)
Text(json, has, channels) == [json |-> json, has |-> has, channels |-> channels]

BadJson == Text("bad", FALSE, JNull)
NotAnObject == Text("other", FALSE, JNull)
NoChannelsKey == Text("dict", FALSE, JNull)
Declare(j) == Text("dict", TRUE, j)

ValidTexts ==
    { Declare(JList(<<Str("a")>>)),
      Declare(JList(<<Str("c")>>)),
      Declare(JList(<<Str("a"), Str("z")>>)),
      Declare(JList(<<Str("b"), Str("b")>>)) }

EmptyTexts == { NoChannelsKey, Declare(JList(<< >>)) }

OddTexts ==
    { NotAnObject,
      Declare(JNumber),
      Declare(JNull),
      Declare(JString(<<Str("a"), Str("b")>>)),
      Declare(JObject(<<Str("a")>>)),
      Declare(JList(<<Num("1")>>)),
      Declare(JList(<<Arr("a")>>)) }

Texts == ValidTexts \cup EmptyTexts \cup {BadJson} \cup OddTexts

(***************************************************************************)
(* What the handler did with one inbound message: the acknowledgment it    *)
(* wrote with websocket.send_json, or the exception it logged, or nothing. *)
(***************************************************************************)
AckOk(S) == [kind |-> "ack", success |-> TRUE, error |-> "", channels |-> S]
AckError(e) == [kind |-> "ack", success |-> FALSE, error |-> e, channels |-> {}]
Logged == [kind |-> "logged", success |-> FALSE, error |-> "", channels |-> {}]
Ignored == [kind |-> "ignored", success |-> FALSE, error |-> "", channels |-> {}]

VARIABLES
    pc,          \* pc[c]: ws_handler of connection c: "idle", "loop", "returned"
    transport,   \* transport[c]: "none", "open", "reset" (broken underneath), "closed"
    websockets,  \* Server.websockets
    socket,      \* socket[c]: the handler's local `socket`: 0 is None, n the n-th Socket it made
    heap,        \* the Socket objects made so far: <<c, n>> -> its .channels
    sockets,     \* Server.sockets, a set of Socket objects
    log,         \* log[c]: what the handler did with each inbound message, in order
    hpc,         \* hpc[p]: send_handler of request p: "new", "body", "end"
    resp,        \* resp[p]: HTTP status answered, 0 while there is none
    parsed,      \* parsed[p]: req.json() was called
    task,        \* task[p]: send_channels task: "none", "scheduled", "gather", "done"
    targets,     \* targets[p]: the task's `channels` argument
    sends,       \* sends[p]: the coroutines gathered: Socket -> "pending", "sent", "failed"
    snapshot,    \* snapshot[p]: the registry as send_channels found it (history)
    iter         \* iter[p]: the comprehension of send_channels, element by element

wsVars == <<pc, transport, websockets, socket, heap, sockets, log>>
httpVars == <<hpc, resp, parsed, task, targets, sends, snapshot, iter>>
vars == <<pc, transport, websockets, socket, heap, sockets, log,
          hpc, resp, parsed, task, targets, sends, snapshot, iter>>

None == 0
NoSends == [s \in {} |-> "pending"]
\* The comprehension before it started.
NotStarted == [at |-> "idle", left |-> {}, seen |-> [s \in {} |-> {}], coros |-> << >>]
\* What send_channels found: the Sockets in self.sockets, and those removed.
Found(registered, removed) == [registered |-> registered, removed |-> removed]

\* The Socket object held by the handler of c (meaningful when socket[c] # None).
Sock(c) == <<c, socket[c]>>
\* The websocket a Socket object writes to.
WsOf(s) == s[1]

\* Inbound messages processed so far, over connections 1 .. n.
RECURSIVE ProcessedUpTo(_)
ProcessedUpTo(n) == IF n = 0 THEN 0 ELSE Len(log[n]) + ProcessedUpTo(n - 1)

Processed == ProcessedUpTo(NumConns)

Init ==
    /\ pc = [c \in Conns |-> "idle"]
    /\ transport = [c \in Conns |-> "none"]
    /\ websockets = {}
    /\ socket = [c \in Conns |-> None]
    /\ heap = [s \in {} |-> {}]
    /\ sockets = {}
    /\ log = [c \in Conns |-> << >>]
    /\ hpc = [p \in Pubs |-> "new"]
    /\ resp = [p \in Pubs |-> 0]
    /\ parsed = [p \in Pubs |-> FALSE]
    /\ task = [p \in Pubs |-> "none"]
    /\ targets = [p \in Pubs |-> {}]
    /\ sends = [p \in Pubs |-> NoSends]
    /\ snapshot = [p \in Pubs |-> Found({}, {})]
    /\ iter = [p \in Pubs |-> NotStarted]

(***************************************************************************)
(* Server.ws_handler                                                       *)
(***************************************************************************)

\* data.get("channels", [])
Channels(m) == IF m.has THEN m.channels ELSE JList(<< >>)

\* TextBranch without the `if not channels` check.
TextBranchNoEmptyCheck(m) ==
    IF m.json = "bad" THEN "invalid"
    ELSE IF m.json = "other" THEN "raise"
    ELSE IF SetRaises(Channels(m)) THEN "raise"
    ELSE IF ~IsList(Channels(m)) THEN "notlist"
    ELSE "declare"

\* TextBranch with the emptiness check as `if "channels" not in data`.
TextBranchKeyCheckOnly(m) ==
    IF m.json = "bad" THEN "invalid"
    ELSE IF m.json = "other" THEN "raise"
    ELSE IF SetRaises(Channels(m)) THEN "raise"
    ELSE IF ~m.has THEN "empty"
    ELSE IF ~IsList(Channels(m)) THEN "notlist"
    ELSE "declare"

\* TextBranch without the inner `except json.JSONDecodeError`.
TextBranchNoJsonCatch(m) ==
    IF m.json \in {"bad", "other"} THEN "raise"
    ELSE IF SetRaises(Channels(m)) THEN "raise"
    ELSE IF ~Truthy(Channels(m)) THEN "empty"
    ELSE IF ~IsList(Channels(m)) THEN "notlist"
    ELSE "declare"

\* The path one TEXT message takes through the loop body, up to its send_json:
\* "invalid" (JSONDecodeError), "raise" (another exception, caught by the outer
\* except: data.get on a non-object, set() of a non-iterable or of unhashable
\* elements), "empty", "notlist", or "declare".
TextBranch(m) ==
    IF m.json = "bad" THEN "invalid"
    ELSE IF m.json = "other" THEN "raise"
    ELSE IF SetRaises(Channels(m)) THEN "raise"
    ELSE IF ~Truthy(Channels(m)) THEN "empty"
    ELSE IF ~IsList(Channels(m)) THEN "notlist"
    ELSE "declare"

\* await websocket.send_json(ack): written when the transport is open; on a
\* transport reset underneath it raises ConnectionResetError, which the outer
\* except logs.
SendJson(c, ack) == IF transport[c] = "open" THEN ack ELSE Logged

\* socket = Socket.from_websocket(websocket, channels_set): a new object.
FromWebsocket(c, S) == [id |-> <<c, socket[c] + 1>>, channels |-> S]

\* Register without `self.sockets.add(socket)`.
RegisterWithoutAdd(c, S) ==
    LET new == FromWebsocket(c, S)
    IN  /\ socket' = [socket EXCEPT ![c] = new.id[2]]
        /\ heap' = (new.id :> new.channels) @@ heap
        /\ UNCHANGED sockets

\* socket = Socket.from_websocket(...); self.sockets.add(socket)
Register(c, S) ==
    LET new == FromWebsocket(c, S) IN
    /\ socket' = [socket EXCEPT ![c] = new.id[2]]
    /\ heap' = (new.id :> new.channels) @@ heap
    /\ sockets' = sockets \cup {new.id}

\* UpdateInterest as `socket.channels |= channels_set`.
UpdateInterestMerge(c, S) ==
    /\ heap' = [heap EXCEPT ![Sock(c)] = @ \cup S]
    /\ UNCHANGED <<socket, sockets>>

\* socket.channels = channels_set
UpdateInterest(c, S) ==
    /\ heap' = [heap EXCEPT ![Sock(c)] = S]
    /\ UNCHANGED <<socket, sockets>>

\* ApplyDeclaration without the `if socket is None` test: every declaration
\* makes and adds a Socket.
ApplyDeclarationAlwaysRegisters(c, S) == Register(c, S)

\* if socket is None: ... else: ...
ApplyDeclaration(c, S) ==
    IF socket[c] = None THEN Register(c, S) ELSE UpdateInterest(c, S)

\* The acknowledgment of each path ("raise" has none).
Reply(c, m) ==
    CASE TextBranch(m) = "invalid" -> SendJson(c, AckError("Invalid JSON."))
      [] TextBranch(m) = "empty" -> SendJson(c, AckError("No channels provided."))
      [] TextBranch(m) = "notlist" -> SendJson(c, AckError("Channels must be an array."))
      [] TextBranch(m) = "declare" -> SendJson(c, AckOk(SetOf(Channels(m))))
      [] OTHER -> Logged

\* websocket.prepare(req); socket = None; self.websockets.add(websocket).
\* Connections are numbered in the order the server accepts them.
WsOpen(c) ==
    /\ pc[c] = "idle"
    /\ \A d \in Conns : d < c => pc[d] # "idle"
    /\ pc' = [pc EXCEPT ![c] = "loop"]
    /\ transport' = [transport EXCEPT ![c] = "open"]
    /\ websockets' = websockets \cup {c}
    /\ socket' = [socket EXCEPT ![c] = None]
    /\ UNCHANGED <<heap, sockets, log>>
    /\ UNCHANGED httpVars

\* WsText without the outer `except Exception`: an exception raised in the
\* loop body leaves ws_handler.
WsTextNoOuterExcept(c, m) ==
    /\ pc[c] = "loop"
    /\ Processed < MaxMsgs
    /\ IF TextBranch(m) = "declare"
       THEN ApplyDeclaration(c, SetOf(Channels(m)))
       ELSE UNCHANGED <<socket, heap, sockets>>
    /\ log' = [log EXCEPT ![c] = Append(@, Reply(c, m))]
    /\ IF Reply(c, m) = Logged
       THEN /\ pc' = [pc EXCEPT ![c] = "returned"]
            /\ transport' = [transport EXCEPT ![c] = "closed"]
       ELSE UNCHANGED <<pc, transport>>
    /\ UNCHANGED websockets
    /\ UNCHANGED httpVars

\* One TEXT message through the loop body (a message already buffered is still
\* processed after the transport broke).
WsText(c, m) ==
    /\ pc[c] = "loop"
    /\ Processed < MaxMsgs
    /\ IF TextBranch(m) = "declare"
       THEN ApplyDeclaration(c, SetOf(Channels(m)))
       ELSE UNCHANGED <<socket, heap, sockets>>
    /\ log' = [log EXCEPT ![c] = Append(@, Reply(c, m))]
    /\ UNCHANGED <<pc, transport, websockets>>
    /\ UNCHANGED httpVars

\* A message that is neither CLOSE nor TEXT (BINARY, ...): no branch is taken.
WsOther(c) ==
    /\ pc[c] = "loop"
    /\ Processed < MaxMsgs
    /\ log' = [log EXCEPT ![c] = Append(@, Ignored)]
    /\ UNCHANGED <<pc, transport, websockets, socket, heap, sockets>>
    /\ UNCHANGED httpVars

\* set.remove(x): KeyError when x is not in the set.
SetRemove(S, x) == [raised |-> x \notin S, set |-> S \ {x}]

\* A CLOSE message reaches the loop body: `if socket is not None:
\* self.sockets.remove(socket)`, then return.  A KeyError from the remove is
\* caught by the outer except, which logs it and so skips the return.
WsClose(c) ==
    /\ pc[c] = "loop"
    /\ transport[c] = "open"
    /\ IF socket[c] # None /\ SetRemove(sockets, Sock(c)).raised
       THEN /\ log' = [log EXCEPT ![c] = Append(@, Logged)]
            /\ UNCHANGED <<pc, transport, sockets>>
       ELSE /\ sockets' = IF socket[c] # None
                          THEN SetRemove(sockets, Sock(c)).set
                          ELSE sockets
            /\ pc' = [pc EXCEPT ![c] = "returned"]
            /\ transport' = [transport EXCEPT ![c] = "closed"]
            /\ UNCHANGED log
    /\ UNCHANGED <<websockets, socket, heap>>
    /\ UNCHANGED httpVars

\* The `async for` ends without a CLOSE message in the body (the transport
\* failed, or the iterator itself consumed the closing handshake): the handler
\* falls off the loop and returns.
WsEnd(c) ==
    /\ pc[c] = "loop"
    /\ pc' = [pc EXCEPT ![c] = "returned"]
    /\ transport' = [transport EXCEPT ![c] = "closed"]
    /\ UNCHANGED <<websockets, socket, heap, sockets, log>>
    /\ UNCHANGED httpVars

\* The peer's connection breaks while the handler waits for the next message.
TransportReset(c) ==
    /\ pc[c] = "loop"
    /\ transport[c] = "open"
    /\ transport' = [transport EXCEPT ![c] = "reset"]
    /\ UNCHANGED <<pc, websockets, socket, heap, sockets, log>>
    /\ UNCHANGED httpVars

(***************************************************************************)
(* Server.send_handler and Server.send_channels                            *)
(***************************************************************************)

\* self.secret, and the Authorization headers a request may carry ("" is a
\* request without the header: headers.get gives None).
Secret == "secret"
Headers == {Secret, "wrong", ""}

\* A request body.  json: "bad" (req.json() raises), "dict", "list" or "int"
\* (what it parses to); hasCh/hasEv: the keys present; ch: data["channels"];
\* ev: bool(data["event"]).
Body(json, hasCh, ch, hasEv, ev) ==
    [json |-> json, hasCh |-> hasCh, ch |-> ch, hasEv |-> hasEv, ev |-> ev]

Publish(j) == Body("dict", TRUE, j, TRUE, TRUE)

GoodBodies ==
    { Publish(JList(<<Str("a"), Str("b")>>)),
      Publish(JList(<<Str("b"), Str("b")>>)) }

BadBodies ==
    { Body("bad", FALSE, JNull, FALSE, FALSE),
      Body("list", FALSE, JNull, FALSE, FALSE),
      Body("int", FALSE, JNull, FALSE, FALSE),
      Body("dict", FALSE, JNull, TRUE, TRUE),
      Body("dict", TRUE, JList(<<Str("a")>>), FALSE, FALSE),
      Body("dict", TRUE, JList(<< >>), TRUE, TRUE),
      Body("dict", TRUE, JList(<<Str("a")>>), TRUE, FALSE),
      Publish(JNumber),
      Publish(JZero),
      Publish(JString(<<Str("a"), Str("c")>>)),
      Publish(JList(<<Arr("a")>>)) }

\* A valid request that names a channel twice and shares two channels with a
\* subscriber on {a, z}.
OverlapBodies == { Publish(JList(<<Str("a"), Str("z"), Str("a")>>)) }

Bodies == GoodBodies \cup OverlapBodies \cup BadBodies

\* Unauthorized as `"Authorization" not in req.headers`.
UnauthorizedOnlyMissing(h) == h = ""

\* req.headers.get("Authorization") != self.secret
Unauthorized(h) == h # Secret

\* What send_handler does with a parsed body: 500 (an exception that is no
\* HTTP response escapes the handler), 400, or 201.
BodyStatus(b) ==
    IF b.json = "bad" THEN 500
    ELSE IF b.json = "int" THEN 500
    ELSE IF b.json = "list" THEN 400
    ELSE IF ~b.hasCh \/ ~b.hasEv THEN 400
    ELSE IF ~Truthy(b.ch) \/ ~b.ev THEN 400
    ELSE IF SetRaises(b.ch) THEN 500
    ELSE 201

\* if req.headers.get("Authorization") != self.secret: raise HTTPUnauthorized.
\* Requests are numbered in the order they arrive.
HttpAuth(p, h) ==
    /\ hpc[p] = "new"
    /\ \A q \in Pubs : q < p => hpc[q] # "new"
    /\ IF Unauthorized(h)
       THEN /\ hpc' = [hpc EXCEPT ![p] = "end"]
            /\ resp' = [resp EXCEPT ![p] = 401]
       ELSE /\ hpc' = [hpc EXCEPT ![p] = "body"]
            /\ UNCHANGED resp
    /\ UNCHANGED <<parsed, task, targets, sends, snapshot, iter>>
    /\ UNCHANGED wsVars

\* [socket for socket in self.sockets if channels & socket.channels]
InterestedIn(S, T) == {s \in S : T \cap heap[s] # {}}

\* HttpBody as `await self.send_channels(...)`: the fan-out runs inside the
\* handler, and the response waits for it.
HttpBodyAwaitsFanout(p, b) ==
    /\ hpc[p] = "body"
    /\ parsed' = [parsed EXCEPT ![p] = TRUE]
    /\ IF BodyStatus(b) = 201
       THEN /\ task' = [task EXCEPT ![p] = "gather"]
            /\ targets' = [targets EXCEPT ![p] = SetOf(b.ch)]
            /\ sends' = [sends EXCEPT ![p] =
                            [s \in InterestedIn(sockets, SetOf(b.ch)) |-> "pending"]]
            /\ snapshot' = [snapshot EXCEPT ![p] = Found(sockets, DOMAIN heap \ sockets)]
            /\ hpc' = [hpc EXCEPT ![p] = "await"]
            /\ UNCHANGED <<resp, iter>>
       ELSE /\ hpc' = [hpc EXCEPT ![p] = "end"]
            /\ resp' = [resp EXCEPT ![p] = BodyStatus(b)]
            /\ UNCHANGED <<task, targets, sends, snapshot, iter>>
    /\ UNCHANGED wsVars

\* data = await req.json() and the rest of send_handler: the checks, then
\* create_task(send_channels(set(channels), event)) and raise HTTPCreated.
HttpBody(p, b) ==
    /\ hpc[p] = "body"
    /\ hpc' = [hpc EXCEPT ![p] = "end"]
    /\ parsed' = [parsed EXCEPT ![p] = TRUE]
    /\ resp' = [resp EXCEPT ![p] = BodyStatus(b)]
    /\ IF BodyStatus(b) = 201
       THEN /\ task' = [task EXCEPT ![p] = "scheduled"]
            /\ targets' = [targets EXCEPT ![p] = SetOf(b.ch)]
       ELSE UNCHANGED <<task, targets>>
    /\ UNCHANGED <<sends, snapshot, iter>>
    /\ UNCHANGED wsVars

\* Matching as `channels <= socket.channels`.
MatchingSuperset(T) == {s \in sockets : T \subseteq heap[s]}

\* Matching over every Socket ever made instead of self.sockets.
MatchingEverMade(T) == InterestedIn(DOMAIN heap, T)

\* The comprehension of send_channels, over self.sockets.
Matching(T) == InterestedIn(sockets, T)

\* send_channels up to its await: the coroutines are made over the registry as
\* it is now and handed to gather (gather of nothing is already done).
Fanout(p) ==
    /\ task[p] = "scheduled"
    /\ sends' = [sends EXCEPT ![p] = [s \in Matching(targets[p]) |-> "pending"]]
    /\ task' = [task EXCEPT ![p] = IF Matching(targets[p]) = {} THEN "done" ELSE "gather"]
    /\ snapshot' = [snapshot EXCEPT ![p] = Found(sockets, DOMAIN heap \ sockets)]
    /\ UNCHANGED <<hpc, resp, parsed, targets, iter>>
    /\ UNCHANGED wsVars

\* wrap_send: await coro(data), ConnectionResetError swallowed.
WrapSend(c) == IF transport[c] = "open" THEN "sent" ELSE "failed"

\* socket.send(event): the wrapped send_json of the Socket's websocket.
SocketSend(s) == WrapSend(WsOf(s))

\* Deliver with the sends awaited without return_exceptions and without the
\* except of wrap_send: the first failure ends send_channels.
DeliverAbortsOnFailure(p, s) ==
    /\ task[p] = "gather"
    /\ s \in DOMAIN sends[p]
    /\ sends[p][s] = "pending"
    /\ sends' = [sends EXCEPT ![p][s] = SocketSend(s)]
    /\ task' = [task EXCEPT ![p] = IF SocketSend(s) = "failed" THEN "done" ELSE @]
    /\ UNCHANGED <<hpc, resp, parsed, targets, snapshot, iter>>
    /\ UNCHANGED wsVars

\* Deliver as `for socket in ...: await socket.send(event)`: a send starts
\* only when those before it have finished (the order taken here is that of
\* the connections).
DeliverInTurn(p, s) ==
    /\ task[p] = "gather"
    /\ s \in DOMAIN sends[p]
    /\ sends[p][s] = "pending"
    /\ \A t \in DOMAIN sends[p] : WsOf(t) < WsOf(s) => sends[p][t] # "pending"
    /\ sends' = [sends EXCEPT ![p][s] = SocketSend(s)]
    /\ UNCHANGED <<hpc, resp, parsed, task, targets, snapshot, iter>>
    /\ UNCHANGED wsVars

\* One gathered coroutine runs.
Deliver(p, s) ==
    /\ task[p] = "gather"
    /\ s \in DOMAIN sends[p]
    /\ sends[p][s] = "pending"
    /\ sends' = [sends EXCEPT ![p][s] = SocketSend(s)]
    /\ UNCHANGED <<hpc, resp, parsed, task, targets, snapshot, iter>>
    /\ UNCHANGED wsVars

\* gather returns once every coroutine has finished.
GatherDone(p) ==
    /\ task[p] = "gather"
    /\ \A s \in DOMAIN sends[p] : sends[p][s] # "pending"
    /\ task' = [task EXCEPT ![p] = "done"]
    /\ UNCHANGED <<hpc, resp, parsed, targets, sends, snapshot, iter>>
    /\ UNCHANGED wsVars

Next ==
    \/ \E c \in Conns : WsOpen(c)
    \/ \E c \in Conns, m \in Texts : WsText(c, m)
    \/ \E c \in Conns : WsOther(c)
    \/ \E c \in Conns : WsClose(c)
    \/ \E c \in Conns : WsEnd(c)
    \/ \E c \in Conns : TransportReset(c)
    \/ \E p \in Pubs, h \in Headers : HttpAuth(p, h)
    \/ \E p \in Pubs, b \in Bodies : HttpBody(p, b)
    \/ \E p \in Pubs : Fanout(p)
    \/ \E p \in Pubs, s \in DOMAIN heap : Deliver(p, s)
    \/ \E p \in Pubs : GatherDone(p)

Spec == Init /\ [][Next]_vars

\* The subscriber sessions alone.  No step of send_handler or send_channels
\* writes a variable of the sessions or the registry, and no session step
\* reads a variable of theirs, so the sessions take the same steps with and
\* without publishers.
NextSessions ==
    \/ \E c \in Conns : WsOpen(c)
    \/ \E c \in Conns, m \in Texts : WsText(c, m)
    \/ \E c \in Conns : WsOther(c)
    \/ \E c \in Conns : WsClose(c)
    \/ \E c \in Conns : WsEnd(c)
    \/ \E c \in Conns : TransportReset(c)

SpecSessions == Init /\ [][NextSessions]_vars

(***************************************************************************)
(* The registry's removal on its own: lines 76-77 of ws_handler applied to *)
(* a registry holding one Socket per connection, any number of times.      *)
(***************************************************************************)

\* The channel sets the valid declarations give.
DeclaredSets == {SetOf(Channels(m)) : m \in ValidTexts}

InitRemove ==
    /\ pc = [c \in Conns |-> "loop"]
    /\ transport = [c \in Conns |-> "open"]
    /\ websockets = Conns
    /\ socket = [c \in Conns |-> 1]
    /\ heap \in [{<<c, 1>> : c \in Conns} -> DeclaredSets]
    /\ sockets = {<<c, 1>> : c \in Conns}
    /\ log = [c \in Conns |-> << >>]
    /\ hpc = [p \in Pubs |-> "new"]
    /\ resp = [p \in Pubs |-> 0]
    /\ parsed = [p \in Pubs |-> FALSE]
    /\ task = [p \in Pubs |-> "none"]
    /\ targets = [p \in Pubs |-> {}]
    /\ sends = [p \in Pubs |-> NoSends]
    /\ snapshot = [p \in Pubs |-> Found({}, {})]
    /\ iter = [p \in Pubs |-> NotStarted]

\* if socket is not None: self.sockets.remove(socket), the KeyError logged as
\* the outer except of ws_handler does.
RemoveCall(c) ==
    /\ socket[c] # None
    /\ log[c] = << >>
    /\ sockets' = SetRemove(sockets, Sock(c)).set
    /\ log' = IF SetRemove(sockets, Sock(c)).raised
              THEN [log EXCEPT ![c] = Append(@, Logged)]
              ELSE log
    /\ UNCHANGED <<pc, transport, websockets, socket, heap>>
    /\ UNCHANGED httpVars

NextRemove == \E c \in Conns : RemoveCall(c)

SpecRemove == InitRemove /\ [][NextRemove]_vars

(***************************************************************************)
(* A stalled subscriber.  The peer of one connection has stopped reading:  *)
(* a send_json to it stays suspended in the transport's drain and never    *)
(* returns, so no Deliver step to it exists.  The loop runs every task     *)
(* that is ready: a scheduled send_channels, and every gathered send whose *)
(* peer reads, is taken after finitely many steps (weak fairness).  There  *)
(* is one request more than in Spec, so that a second publish can arrive   *)
(* while the fan-out of the first is held up; the subscribers send valid   *)
(* declarations and the publishers valid requests.                         *)
(***************************************************************************)

\* The connection whose peer has stalled.
StalledConn == CHOOSE c \in Conns : \A d \in Conns : c <= d

PubsStall == 1 .. MaxPublish + 1

\* The first Socket the handler of c makes.
FirstSocket(c) == <<c, None + 1>>

InitStall ==
    /\ pc = [c \in Conns |-> "idle"]
    /\ transport = [c \in Conns |-> "none"]
    /\ websockets = {}
    /\ socket = [c \in Conns |-> None]
    /\ heap = [s \in {} |-> {}]
    /\ sockets = {}
    /\ log = [c \in Conns |-> << >>]
    /\ hpc = [p \in PubsStall |-> "new"]
    /\ resp = [p \in PubsStall |-> 0]
    /\ parsed = [p \in PubsStall |-> FALSE]
    /\ task = [p \in PubsStall |-> "none"]
    /\ targets = [p \in PubsStall |-> {}]
    /\ sends = [p \in PubsStall |-> NoSends]
    /\ snapshot = [p \in PubsStall |-> Found({}, {})]
    /\ iter = [p \in PubsStall |-> NotStarted]

NextStall ==
    \/ \E c \in Conns : WsOpen(c)
    \/ \E c \in Conns, m \in ValidTexts : WsText(c, m)
    \/ \E c \in Conns : WsClose(c)
    \/ \E c \in Conns : TransportReset(c)
    \/ \E p \in PubsStall : HttpAuth(p, Secret)
    \/ \E p \in PubsStall, b \in GoodBodies : HttpBody(p, b)
    \/ \E p \in PubsStall : Fanout(p)
    \/ \E p \in PubsStall, c \in Conns \ {StalledConn} : Deliver(p, FirstSocket(c))
    \/ \E p \in PubsStall : GatherDone(p)

FairStall ==
    \A p \in PubsStall :
        /\ WF_vars(Fanout(p))
        /\ WF_vars(GatherDone(p))
        /\ \A c \in Conns \ {StalledConn} : WF_vars(Deliver(p, FirstSocket(c)))

SpecStall == InitStall /\ [][NextStall]_vars /\ FairStall

(***************************************************************************)
(* send_channels with its comprehension taken one element at a time.  The  *)
(* tasks share one event loop, which hands control to another task only at *)
(* an await; lines 151-153 hold none, so from the moment the iterator over *)
(* self.sockets is made until gather is awaited no other task takes a      *)
(* step.  iter[p] holds the iterator: the Sockets still to come, and the   *)
(* channel set read from each Socket visited, and the list `coros` of the  *)
(* sends made so far, one entry per coroutine.                             *)
(***************************************************************************)

\* Quiet with an await inside the comprehension (an `async for`, or an
\* awaited condition): the loop may run another task between two elements.
QuietIfAwaited == TRUE

\* No task is inside the comprehension: the loop is free to run another task.
Quiet == \A p \in DOMAIN iter : iter[p].at # "iterating"

\* for socket in self.sockets: the iterator is made.
IterStart(p) ==
    /\ Quiet
    /\ task[p] = "scheduled"
    /\ iter[p].at = "idle"
    /\ iter' = [iter EXCEPT ![p] = [at |-> "iterating", left |-> sockets,
                                    seen |-> [s \in {} |-> {}], coros |-> << >>]]
    /\ UNCHANGED <<hpc, resp, parsed, task, targets, sends, snapshot>>
    /\ UNCHANGED wsVars

\* IterNext as `for channel in channels: for socket in self.sockets: if
\* channel in socket.channels`: one coroutine for every channel shared.
IterNextPerChannel(p, s) ==
    /\ iter[p].at = "iterating"
    /\ s \in iter[p].left
    /\ iter' = [iter EXCEPT ![p].left = @ \ {s},
                            ![p].seen = (s :> heap[s]) @@ @,
                            ![p].coros =
                                @ \o [i \in 1 .. Cardinality(targets[p] \cap heap[s]) |-> s]]
    /\ UNCHANGED <<hpc, resp, parsed, task, targets, sends, snapshot>>
    /\ UNCHANGED wsVars

\* The iterator yields s (in whatever order the set has), the condition
\* `channels & socket.channels` reads its channels, and socket.send(event)
\* is appended to the list when they share an element; a set whose size is
\* not the one it had when the iterator was made raises RuntimeError instead,
\* which ends the task.
IterNext(p, s) ==
    /\ iter[p].at = "iterating"
    /\ s \in iter[p].left
    /\ IF Cardinality(sockets) # Cardinality(iter[p].left \cup DOMAIN iter[p].seen)
       THEN /\ iter' = [iter EXCEPT ![p].at = "failed"]
            /\ task' = [task EXCEPT ![p] = "done"]
       ELSE /\ iter' = [iter EXCEPT ![p].left = @ \ {s},
                                    ![p].seen = (s :> heap[s]) @@ @,
                                    ![p].coros = IF targets[p] \cap heap[s] # {}
                                                 THEN Append(@, s) ELSE @]
            /\ UNCHANGED task
    /\ UNCHANGED <<hpc, resp, parsed, targets, sends, snapshot>>
    /\ UNCHANGED wsVars

\* The Sockets a list of coroutines writes to.
Receivers(coros) == {coros[i] : i \in DOMAIN coros}

\* The iterator is exhausted: the list of coroutines is complete and
\* `await asyncio.gather(*coros, ...)` gives the loop back.
IterEnd(p) ==
    /\ iter[p].at = "iterating"
    /\ iter[p].left = {}
    /\ iter' = [iter EXCEPT ![p].at = "finished"]
    /\ sends' = [sends EXCEPT ![p] =
                    [s \in Receivers(iter[p].coros) |-> "pending"]]
    /\ task' = [task EXCEPT ![p] =
                    IF iter[p].coros = << >> THEN "done" ELSE "gather"]
    /\ snapshot' = [snapshot EXCEPT ![p] = Found(sockets, DOMAIN heap \ sockets)]
    /\ UNCHANGED <<hpc, resp, parsed, targets>>
    /\ UNCHANGED wsVars

NextIter ==
    \/ \E c \in Conns : Quiet /\ WsOpen(c)
    \/ \E c \in Conns, m \in Texts : Quiet /\ WsText(c, m)
    \/ \E c \in Conns : Quiet /\ WsOther(c)
    \/ \E c \in Conns : Quiet /\ WsClose(c)
    \/ \E c \in Conns : Quiet /\ WsEnd(c)
    \/ \E c \in Conns : Quiet /\ TransportReset(c)
    \/ \E p \in Pubs, h \in Headers : Quiet /\ HttpAuth(p, h)
    \/ \E p \in Pubs, b \in Bodies : Quiet /\ HttpBody(p, b)
    \/ \E p \in Pubs : IterStart(p)
    \/ \E p \in Pubs, s \in sockets : IterNext(p, s)
    \/ \E p \in Pubs : IterEnd(p)
    \/ \E p \in Pubs, s \in DOMAIN heap : Quiet /\ Deliver(p, s)
    \/ \E p \in Pubs : Quiet /\ GatherDone(p)

SpecIter == Init /\ [][NextIter]_vars

(***************************************************************************)
(* Properties                                                              *)
(***************************************************************************)

\* The elements of a JSON list, as a set.
Elements(j) == {j.v[i] : i \in 1 .. Len(j.v)}

\* A declaration the protocol accepts: an object whose "channels" is a
\* non-empty list of strings.
IsValidDeclaration(m) ==
    /\ m.json = "dict"
    /\ m.has
    /\ m.channels.t = "list"
    /\ Len(m.channels.v) > 0
    /\ \A i \in DOMAIN m.channels.v : m.channels.v[i].k = "str"

\* An object whose "channels" is missing or the empty list.
IsEmptyDeclaration(m) ==
    /\ m.json = "dict"
    /\ \/ ~m.has
       \/ m.channels.t = "list" /\ m.channels.v = << >>

\* A request body the endpoint accepts: channels a non-empty list of strings,
\* event non-empty.
IsValidBody(b) ==
    /\ b.json = "dict"
    /\ b.hasCh /\ b.hasEv /\ b.ev
    /\ b.ch.t = "list"
    /\ Len(b.ch.v) > 0
    /\ \A i \in DOMAIN b.ch.v : b.ch.v[i].k = "str"

Last(q) == q[Len(q)]

\* The Socket objects of connection c that are in the registry.
EntriesOf(c) == {s \in sockets : WsOf(s) = c}

\* The Socket objects that were registered and have been removed.
Removed == DOMAIN heap \ sockets

\* C1: a publish accepted with target set T (the elements of its channels
\* list) makes send_channels create one send for exactly the Sockets that are
\* in Server.sockets when it runs and share a channel with T; no send exists
\* before that, and none is added or dropped afterwards.
C1_FanoutReachesExactlyMatching ==
    [][\A p \in Pubs :
        /\ \A b \in Bodies :
              HttpBody(p, b) /\ resp'[p] = 201 => targets'[p] = Elements(b.ch)
        /\ task[p] = "scheduled" /\ task'[p] # "scheduled" =>
              DOMAIN sends'[p] =
                  {s \in sockets : \E ch \in targets[p] : ch \in heap[s]}
        /\ task'[p] \in {"none", "scheduled"} => DOMAIN sends'[p] = {}
        /\ task[p] \in {"gather", "done"} => DOMAIN sends'[p] = DOMAIN sends[p]
      ]_vars

\* C1 witness: a publish to {a, b} has fanned out to the connection on {a, z}
\* and not to the registered connection on {c}.
C1_Witness ==
    \E p \in Pubs :
    \E x \in snapshot[p].registered, y \in snapshot[p].registered :
        /\ task[p] = "gather"
        /\ targets[p] = {Str("a"), Str("b")}
        /\ heap[x] = {Str("a"), Str("z")}
        /\ heap[y] = {Str("c")}
        /\ DOMAIN sends[p] = {x}

\* C2: every Socket made is in Server.sockets exactly while the transport of
\* its websocket has not been closed, and no connection has two entries.
C2_RegistryIffTransportOpen ==
    /\ \A s \in DOMAIN heap :
          s \in sockets <=> transport[WsOf(s)] \in {"open", "reset"}
    /\ \A c \in Conns : Cardinality(EntriesOf(c)) <= 1

\* C3: once the handler of a connection has returned (its transport closed,
\* by whatever cause), the connection is tracked neither in Server.sockets nor
\* in Server.websockets.
C3_ClosedIsUntracked ==
    \A c \in Conns :
        pc[c] = "returned" => EntriesOf(c) = {} /\ c \notin websockets

\* C4: the Sockets send_channels picks are all in Server.sockets at that
\* moment, and none of them is a Socket removed before.
C4_FanoutReadsOnlyRegistered ==
    [][\A p \in Pubs :
        task[p] = "scheduled" /\ task'[p] # "scheduled" =>
            \A s \in DOMAIN sends'[p] : s \in sockets /\ s \notin Removed
      ]_vars

\* C4 witness: a fan-out is under way that found, when it read the registry,
\* a Socket already removed whose channels intersect its targets: that Socket
\* is not among its sends, a registered one is.
C4_Witness ==
    \E p \in Pubs :
    \E s \in snapshot[p].removed :
        /\ task[p] = "gather"
        /\ targets[p] \cap heap[s] # {}
        /\ s \notin DOMAIN sends[p]
        /\ DOMAIN sends[p] # {}

C6_EmptyChannelsRejected ==
    [][\A c \in Conns :
        log'[c] # log[c] =>
        \A m \in Texts :
        IsEmptyDeclaration(m) /\ WsText(c, m) =>
            /\ <<socket, heap, sockets>>' = <<socket, heap, sockets>>
            /\ pc'[c] = "loop" /\ transport'[c] = transport[c]
            /\ Len(log'[c]) = Len(log[c]) + 1
            /\ transport[c] = "open" =>
                  Last(log'[c]) = AckError("No channels provided.")
      ]_vars

\* C6 witness: a subscribed connection got the failure and kept its channel
\* set, while a connected one that never declared has no Socket.
C6_Witness ==
    \E c \in Conns, d \in Conns :
        /\ Len(log[c]) = 2
        /\ log[c][1].success
        /\ log[c][2] = AckError("No channels provided.")
        /\ Sock(c) \in sockets
        /\ heap[Sock(c)] = log[c][1].channels
        /\ pc[c] = "loop"
        /\ pc[d] = "loop" /\ socket[d] = None

\* C7: a message that is not JSON changes neither the registry nor the
\* session and is answered (on an open transport) with "Invalid JSON."; a
\* valid declaration arriving on the same connection afterwards is applied:
\* the connection's Socket is registered with exactly the declared channels
\* and the success acknowledgment is written.
C7_InvalidJsonTolerated ==
    [][\A c \in Conns :
        log'[c] # log[c] =>
        /\ WsText(c, BadJson) =>
              /\ <<socket, heap, sockets>>' = <<socket, heap, sockets>>
              /\ pc'[c] = "loop" /\ transport'[c] = transport[c]
              /\ Len(log'[c]) = Len(log[c]) + 1
              /\ transport[c] = "open" =>
                    Last(log'[c]) = AckError("Invalid JSON.")
        /\ \A m \in Texts :
              /\ \E i \in DOMAIN log[c] : log[c][i] = AckError("Invalid JSON.")
              /\ IsValidDeclaration(m)
              /\ WsText(c, m)
              => /\ socket'[c] # None
                 /\ <<c, socket'[c]>> \in sockets'
                 /\ heap'[<<c, socket'[c]>>] = Elements(m.channels)
                 /\ transport[c] = "open" =>
                       Last(log'[c]) = AckOk(Elements(m.channels))
      ]_vars

\* C7 witness: a connection was answered "Invalid JSON." and then had a
\* declaration registered and acknowledged.
C7_Witness ==
    \E c \in Conns :
        /\ Len(log[c]) = 2
        /\ log[c][1] = AckError("Invalid JSON.")
        /\ log[c][2].success
        /\ Sock(c) \in sockets
        /\ heap[Sock(c)] = log[c][2].channels

C9_UnauthorizedDoesNothing ==
    [][\A p \in Pubs :
        /\ \A h \in Headers :
              h # Secret /\ HttpAuth(p, h) => resp'[p] = 401 /\ hpc'[p] = "end"
        /\ resp'[p] = 401 =>
              ~parsed'[p] /\ task'[p] = "none" /\ DOMAIN sends'[p] = {}
        /\ resp[p] = 401 => resp'[p] = 401 /\ hpc'[p] = "end"
      ]_vars

\* C9 witness: a request was refused while a subscriber was registered.
C9_Witness ==
    \E p \in Pubs :
        /\ resp[p] = 401
        /\ hpc[p] = "end"
        /\ sockets # {}

\* C10: a valid body of an authorized request is answered 201 in the step
\* that handles it; the response appears in the very step that schedules the
\* task, before any send exists, and no later step of the fan-out changes it.
C10_CreatedWithoutWaiting ==
    [][\A p \in Pubs :
        /\ \A b \in Bodies : IsValidBody(b) /\ HttpBody(p, b) => resp'[p] = 201
        /\ resp[p] # 201 /\ resp'[p] = 201 =>
              /\ task[p] = "none" /\ task'[p] = "scheduled"
              /\ DOMAIN sends'[p] = {}
        /\ task[p] = "none" /\ task'[p] # "none" => resp'[p] = 201
        /\ resp[p] = 201 => resp'[p] = 201
      ]_vars

\* C10 witness: the publisher has its 201 while a send of the fan-out to an
\* interested subscriber is still pending.
C10_Witness ==
    \E p \in Pubs, s \in sockets :
        /\ resp[p] = 201
        /\ task[p] = "gather"
        /\ s \in DOMAIN sends[p]
        /\ sends[p][s] = "pending"

\* C11: every body of an authorized request that breaks the shape rule (not
\* JSON, not an object, channels missing, empty or not a list of strings,
\* event missing or empty) is answered 400 and schedules no task.
C11_BadBodyIs400 ==
    [][\A p \in Pubs :
        hpc[p] = "body" /\ hpc'[p] # "body" =>
        \A b \in Bodies :
        ~IsValidBody(b) /\ HttpBody(p, b) =>
            resp'[p] = 400 /\ task'[p] = "none"
      ]_vars

\* C12: a send to a Socket whose transport is not open ends as failed and
\* nothing else happens: the fan-out stays in its gather, every other send of
\* it is as it was, no response changes; a send to an open transport ends as
\* sent whatever happened to the others; and the fan-out is done only when
\* none of its sends is pending.
C12_BrokenTransportIsContained ==
    [][\A p \in Pubs :
        /\ sends'[p] # sends[p] /\ task[p] = "gather" =>
           \A s \in DOMAIN sends[p] :
           Deliver(p, s) =>
               /\ sends'[p][s] =
                      IF transport[WsOf(s)] = "open" THEN "sent" ELSE "failed"
               /\ \A t \in DOMAIN sends[p] \ {s} : sends'[p][t] = sends[p][t]
               /\ DOMAIN sends'[p] = DOMAIN sends[p]
               /\ task'[p] = "gather"
               /\ resp' = resp /\ hpc' = hpc
        /\ task'[p] = "done" =>
               \A s \in DOMAIN sends'[p] : sends'[p][s] # "pending"
      ]_vars

\* C12 witness: a fan-out is done, one of its sends failed on a broken
\* transport, another was sent, and the publisher's response is still 201.
C12_Witness ==
    \E p \in Pubs :
    \E s \in DOMAIN sends[p], t \in DOMAIN sends[p] :
        /\ task[p] = "done"
        /\ sends[p][s] = "failed"
        /\ transport[WsOf(s)] = "reset"
        /\ sends[p][t] = "sent"
        /\ resp[p] = 201

\* C13: a message that is a JSON object whose channels are missing, empty or
\* anything but a list of strings changes neither the registry nor the
\* session, and its reply on an open transport is one of the two typed
\* failures.
C13_BadChannelsRejected ==
    [][\A c \in Conns :
        log'[c] # log[c] =>
        \A m \in Texts :
        m.json = "dict" /\ ~IsValidDeclaration(m) /\ WsText(c, m) =>
            /\ <<socket, heap, sockets>>' = <<socket, heap, sockets>>
            /\ pc'[c] = "loop" /\ transport'[c] = transport[c]
            /\ Len(log'[c]) = Len(log[c]) + 1
            /\ transport[c] = "open" =>
                  Last(log'[c]) \in {AckError("No channels provided."),
                                     AckError("Channels must be an array.")}
      ]_vars

\* C14: a TEXT message, whatever it holds and whether or not its reply could
\* be written, and a message of another type, leave the handler in its loop
\* with one more message processed; the handler leaves its loop only in a
\* step that closes the transport and processes no message.
C14_MessageNeverEndsSession ==
    [][\A c \in Conns :
        /\ log'[c] # log[c] =>
              /\ pc[c] = "loop" /\ pc'[c] = "loop"
              /\ Len(log'[c]) = Len(log[c]) + 1
              /\ \A m \in Texts : WsText(c, m) => Last(log'[c]) = Reply(c, m)
        /\ pc[c] = "loop" /\ pc'[c] # "loop" =>
              /\ pc'[c] = "returned"
              /\ transport'[c] = "closed"
              /\ log'[c] = log[c]
      ]_vars

\* C14 witness: a handler logged the exception raised by a payload of an
\* unexpected shape, then processed and acknowledged another message of the
\* same connection, and is still in its loop.
C14_Witness ==
    \E c \in Conns :
        /\ Len(log[c]) = 2
        /\ log[c][1] = Logged
        /\ log[c][2].kind = "ack"
        /\ transport[c] = "open"
        /\ pc[c] = "loop"

\* C15: every Socket in Server.sockets has at least one channel.
C15_RegisteredHasChannels ==
    \A s \in sockets : heap[s] # {}

\* C15 witness: one connection declared no channels and has no Socket in the
\* registry, another declared some and is registered with them.
C15_Witness ==
    \E c \in Conns, d \in Conns :
        /\ log[c] = <<AckError("No channels provided.")>>
        /\ EntriesOf(c) = {}
        /\ Len(log[d]) = 1 /\ log[d][1].success
        /\ Sock(d) \in sockets
        /\ heap[Sock(d)] = log[d][1].channels
        /\ heap[Sock(d)] # {}

\* C16: a handler that has not made a Socket (CONNECTED) makes exactly one
\* and adds it to the registry at its first valid declaration (SUBSCRIBED);
\* a later valid declaration sets the channels of that same Socket and adds
\* none; either way the connection then has exactly one entry, holding the
\* declared channels without duplicates, and the reply on an open transport
\* is the success acknowledgment with that set.  A handler never lets go of
\* its Socket, and one that has returned (CLOSED) stays so.
C16_SessionStates ==
    [][\A c \in Conns :
        /\ log'[c] # log[c] =>
           \A m \in Texts :
           IsValidDeclaration(m) /\ WsText(c, m) =>
               /\ socket'[c] # None
               /\ {s \in sockets' : WsOf(s) = c} = {<<c, socket'[c]>>}
               /\ heap'[<<c, socket'[c]>>] = Elements(m.channels)
               /\ socket[c] = None =>
                     /\ <<c, socket'[c]>> \notin DOMAIN heap
                     /\ sockets' = sockets \cup {<<c, socket'[c]>>}
                     /\ DOMAIN heap' = DOMAIN heap \cup {<<c, socket'[c]>>}
               /\ socket[c] # None =>
                     /\ socket'[c] = socket[c]
                     /\ sockets' = sockets
                     /\ DOMAIN heap' = DOMAIN heap
               /\ transport[c] = "open" =>
                     Last(log'[c]) = AckOk(Elements(m.channels))
        /\ socket[c] # None => socket'[c] = socket[c]
        /\ socket'[c] # socket[c] => pc[c] = "loop" /\ pc'[c] = "loop"
        /\ pc[c] = "idle" => socket[c] = None /\ pc'[c] \in {"idle", "loop"}
        /\ pc[c] = "returned" => pc'[c] = "returned"
      ]_vars

\* C16 witness: a connection declared twice, the second time ["b", "b"]; it
\* was acknowledged {b}, and the one Socket ever made for it is its only
\* entry and holds {b}.
C16_Witness ==
    \E c \in Conns :
        /\ Len(log[c]) = 2
        /\ log[c][1].success
        /\ log[c][1].channels # {Str("b")}
        /\ log[c][2] = AckOk({Str("b")})
        /\ {s \in DOMAIN heap : WsOf(s) = c} = {Sock(c)}
        /\ EntriesOf(c) = {Sock(c)}
        /\ heap[Sock(c)] = {Str("b")}

\* How far the send of fan-out p to Socket s has got ("none": there is none).
SendState(p, s) == IF s \in DOMAIN sends[p] THEN sends[p][s] ELSE "none"

\* C17: with the send to the stalled connection never completing, every send
\* of a fan-out to another connection, once gathered, eventually finishes
\* (sent, or failed on a broken transport), and every scheduled fan-out,
\* this one and those of other publishes, eventually reads the registry and
\* starts its sends.
C17_StalledDoesNotBlock ==
    \A p \in PubsStall :
        /\ (task[p] = "scheduled") ~> (task[p] \in {"gather", "done"})
        /\ \A c \in Conns \ {StalledConn} :
              (SendState(p, FirstSocket(c)) = "pending")
              ~> (SendState(p, FirstSocket(c)) \in {"sent", "failed"})

\* C17 witness: the fan-out of one publish is held in its gather by the
\* pending send to the stalled connection while its send to a connection
\* that reads was sent, and the fan-out of a later publish is done, its
\* event sent to that connection too.
C17_Witness ==
    \E p \in PubsStall, q \in PubsStall :
    \E c \in Conns \ {StalledConn} :
        /\ p < q
        /\ task[p] = "gather"
        /\ DOMAIN sends[p] = {FirstSocket(StalledConn), FirstSocket(c)}
        /\ sends[p][FirstSocket(StalledConn)] = "pending"
        /\ sends[p][FirstSocket(c)] = "sent"
        /\ task[q] = "done"
        /\ DOMAIN sends[q] = {FirstSocket(c)}
        /\ sends[q][FirstSocket(c)] = "sent"

\* C18: while a send_channels task is inside its comprehension no step
\* changes the registry or the channels of a Socket; the Sockets visited and
\* those still to come are together exactly Server.sockets (its size is the
\* one the iterator started with, so no RuntimeError), every channel set read
\* so far is the set that Socket has now, and the sends made at the end are
\* for exactly the Sockets of the registry that share a channel with the
\* targets: the whole read is of one state of the registry.
C18_RegistryReadIsAtomic ==
    [][\A p \in Pubs :
        /\ iter'[p].at # "failed"
        /\ iter[p].at = "iterating" =>
              /\ sockets' = sockets /\ heap' = heap /\ socket' = socket
              /\ iter[p].left \cup DOMAIN iter[p].seen = sockets
              /\ \A s \in DOMAIN iter[p].seen : iter[p].seen[s] = heap[s]
              /\ iter'[p].at = "finished" =>
                    DOMAIN sends'[p] =
                        {s \in sockets : targets[p] \cap heap[s] # {}}
      ]_vars

\* C18 witness: a comprehension has read one Socket and has another still to
\* come, while the handlers of both are in their loops (each with a
\* declaration or a CLOSE possibly waiting to be processed).
C18_Witness ==
    \E p \in Pubs :
    \E s \in DOMAIN iter[p].seen, t \in iter[p].left :
        /\ iter[p].at = "iterating"
        /\ pc[WsOf(s)] = "loop" /\ transport[WsOf(s)] = "open"
        /\ pc[WsOf(t)] = "loop" /\ transport[WsOf(t)] = "open"

\* C19: the list of coroutines a fan-out makes never holds two sends to the
\* same connection (so none to the same Socket), however many channels the
\* targets share with a Socket and however often a name is in the request;
\* and once the list is gathered the sends are those of the list.
C19_OneSendPerConnection ==
    \A p \in Pubs :
        /\ \A i \in DOMAIN iter[p].coros, j \in DOMAIN iter[p].coros :
              i # j => WsOf(iter[p].coros[i]) # WsOf(iter[p].coros[j])
        /\ iter[p].at = "finished" =>
              DOMAIN sends[p] = Receivers(iter[p].coros)

\* C19 witness: a request with channels ["a", "z", "a"] has fanned out over a
\* registry holding a Socket on {a, z} and one on {a}: two coroutines, one
\* for each.
C19_Witness ==
    \E p \in Pubs :
    \E s \in DOMAIN iter[p].seen, t \in DOMAIN iter[p].seen :
        /\ iter[p].at = "finished"
        /\ targets[p] = {Str("a"), Str("z")}
        /\ iter[p].seen[s] = {Str("a"), Str("z")}
        /\ iter[p].seen[t] = {Str("a")}
        /\ Len(iter[p].coros) = 2
        /\ Receivers(iter[p].coros) = {s, t}

\* C20: a step that writes a success acknowledgment with channel set S
\* leaves the connection's Socket in Server.sockets with channels exactly S;
\* a fan-out reads the registry only after its request was answered 201, the
\* Sockets it makes sends for are at that moment in the registry with
\* channels that intersect its targets, and an event is sent only by a send
\* made then and still pending.
C20_AckFollowsRegistry ==
    [][/\ \A c \in Conns :
            log'[c] # log[c] /\ Last(log'[c]).kind = "ack" /\ Last(log'[c]).success =>
                /\ socket'[c] # None
                /\ <<c, socket'[c]>> \in sockets'
                /\ heap'[<<c, socket'[c]>>] = Last(log'[c]).channels
       /\ \A p \in Pubs :
            /\ resp'[p] # 201 => DOMAIN sends'[p] = {}
            /\ task[p] = "scheduled" /\ task'[p] # "scheduled" =>
                  /\ resp[p] = 201
                  /\ snapshot'[p].registered = sockets
                  /\ \A s \in DOMAIN sends'[p] :
                        s \in sockets /\ heap[s] \cap targets[p] # {}
            /\ \A s \in DOMAIN sends'[p] :
                  sends'[p][s] = "sent" /\ SendState(p, s) # "sent" =>
                      /\ SendState(p, s) = "pending"
                      /\ s \in snapshot[p].registered
                      /\ resp[p] = 201
      ]_vars

\* C20 witness: a connection was acknowledged a channel set and holds it in
\* the registry, and a publish accepted with targets that intersect it has
\* sent its event to that connection.
C20_Witness ==
    \E p \in Pubs, c \in Conns :
        /\ Len(log[c]) > 0
        /\ Last(log[c]).kind = "ack" /\ Last(log[c]).success
        /\ Sock(c) \in sockets
        /\ heap[Sock(c)] = Last(log[c]).channels
        /\ resp[p] = 201
        /\ heap[Sock(c)] \cap targets[p] # {}
        /\ Sock(c) \in snapshot[p].registered
        /\ SendState(p, Sock(c)) = "sent"

====
